---------------------------- MODULE Spec2Model ----------------------------
(***************************************************************************)
(* A model of hmm.py: the _GaussianHMM object (the one concrete subclass   *)
(* of _BaseHMM that can be instantiated), its validated parameter          *)
(* properties, init, train, eval, lpdf, decode and the lattice passes.     *)
(*                                                                         *)
(* A method is an operator from the object (a record of its attributes)    *)
(* and the arguments to a result [self, exc, ret]: the object after the    *)
(* call, the exception that left the call (NoExc when it returned) and the *)
(* value returned.  A statement that raises ends the method there, as in   *)
(* Python; the line of the raising statement is kept in exc.line.          *)
(*                                                                         *)
(* Numbers are exact: a float is a rational, the logarithm of a positive   *)
(* rational kept symbolically, -inf or nan.  np.log and np.exp are not the *)
(* identity: log(0) = -inf, log(x) = nan for x < 0, exp(nan) = nan.        *)
(***************************************************************************)
EXTENDS Integers, Sequences, FiniteSets, TLC

(* Bounds of the model. *)
MaxStates == 2
MaxDim == 1
MaxIter == 1

---------------------------------------------------------------------------
(* Exact rationals [num, den], den > 0, in lowest terms. *)

Abs(x) == IF x < 0 THEN -x ELSE x

RECURSIVE GCD(_, _)
GCD(a, b) == IF b = 0 THEN a ELSE GCD(b, a % b)

Rat(n, d) ==
    LET g == GCD(Abs(n), d)
    IN  [num |-> n \div g, den |-> d \div g]

RZero == Rat(0, 1)
ROne == Rat(1, 1)
RInt(n) == Rat(n, 1)

RAdd(a, b) ==
    LET g == GCD(a.den, b.den)
        l == (a.den \div g) * b.den
    IN  Rat(a.num * (l \div a.den) + b.num * (l \div b.den), l)

RNeg(a) == [num |-> -a.num, den |-> a.den]
RSub(a, b) == RAdd(a, RNeg(b))
RMul(a, b) ==
    LET g1 == GCD(Abs(a.num), b.den)
        g2 == GCD(Abs(b.num), a.den)
    IN  Rat((a.num \div g1) * (b.num \div g2), (a.den \div g2) * (b.den \div g1))
RDivInt(a, n) == RMul(a, Rat(1, n))
(* a/b < c/d for a, c >= 0 and b, d > 0, by the continued fractions (no    *)
(* product is formed).                                                     *)
RECURSIVE FracLess(_, _, _, _)
FracLess(a, b, c, d) ==
    IF a \div b # c \div d THEN a \div b < c \div d
    ELSE IF c % d = 0 THEN FALSE
    ELSE IF a % b = 0 THEN TRUE
    ELSE FracLess(d, c % d, b, a % b)

RLess(a, b) ==
    IF a.num < 0
    THEN IF b.num < 0 THEN FracLess(-b.num, b.den, -a.num, a.den) ELSE TRUE
    ELSE IF b.num < 0 THEN FALSE ELSE FracLess(a.num, a.den, b.num, b.den)
RLeq(a, b) == ~RLess(b, a)
RAbs(a) == [num |-> Abs(a.num), den |-> a.den]

RECURSIVE RSumSeq(_)
RSumSeq(s) == IF s = <<>> THEN RZero ELSE RAdd(Head(s), RSumSeq(Tail(s)))

---------------------------------------------------------------------------
(* Floats: k = "num" (the rational v), "log" (ln v, v > 0, v # 1),         *)
(* "exp" (e^v, v # 0), "ninf" (-inf), "nan".                               *)

Num(r) == [k |-> "num", v |-> r]
NaN == [k |-> "nan", v |-> RZero]
NegInf == [k |-> "ninf", v |-> RZero]
F(n, d) == Num(Rat(n, d))

(* np.log of one float (hmm.py:249, 263). *)
np_log1(x) ==
    IF x.k = "num"
    THEN IF x.v.num > 0
         THEN IF x.v = ROne THEN Num(RZero) ELSE [k |-> "log", v |-> x.v]
         ELSE IF x.v.num = 0 THEN NegInf ELSE NaN
    ELSE IF x.k = "exp" THEN Num(x.v) ELSE NaN

(* np.exp of one float (hmm.py:240, 254). *)
np_exp1(x) ==
    CASE x.k = "log" -> Num(x.v)
      [] x.k = "ninf" -> Num(RZero)
      [] x.k = "nan" -> NaN
      [] x.k = "num" /\ x.v = RZero -> Num(ROne)
      [] OTHER -> [k |-> "exp", v |-> x.v]

---------------------------------------------------------------------------
(* numpy arrays: a shape and the entries in row-major order. *)

RECURSIVE Prod(_)
Prod(s) == IF s = <<>> THEN 1 ELSE Head(s) * Prod(Tail(s))

Arr(shape, data) == [shape |-> shape, data |-> data]
np_tile(x, shape) == Arr(shape, [i \in 1..Prod(shape) |-> x])
np_zeros(shape) == np_tile(F(0, 1), shape)
EmptyList == Arr(<<0>>, <<>>)
Scale(c, a) == Arr(a.shape, [i \in 1..Len(a.data) |-> Num(RMul(c, a.data[i].v))])

len(a) == a.shape[1]
Row(a, i) == SubSeq(a.data, (i - 1) * a.shape[2] + 1, i * a.shape[2])
At2(a, i, j) == a.data[(i - 1) * a.shape[2] + j]
RatsOf(s) == [i \in 1..Len(s) |-> s[i].v]

(* np.sum(a) and np.sum(a, axis=1) of arrays of plain numbers. *)
np_sum(a) == Num(RSumSeq(RatsOf(a.data)))
np_sum_axis1(a) == [i \in 1..a.shape[1] |-> Num(RSumSeq(RatsOf(Row(a, i))))]
np_log(a) == Arr(a.shape, [i \in 1..Len(a.data) |-> np_log1(a.data[i])])
np_exp(a) == Arr(a.shape, [i \in 1..Len(a.data) |-> np_exp1(a.data[i])])

(* gmm.almost_equal: equality within the 1e-8 tolerance. *)
TolInv == 100000000
almost_equal(x, y) == RLess(RAbs(RSub(x.v, y.v)), Rat(1, TolInv))

---------------------------------------------------------------------------
(* Results of a call. *)

NoExc == [type |-> "None", line |-> 0]
PyNone == [tag |-> "None", val |-> <<>>]
Raise(self, type, line) ==
    [self |-> self, exc |-> [type |-> type, line |-> line], ret |-> PyNone]
Return(self, value) == [self |-> self, exc |-> NoExc, ret |-> value]

(* An attribute that has not been assigned yet. *)
Unset == Arr(<<>>, <<>>)

---------------------------------------------------------------------------
(* Name resolution: a name a function reads is bound when it is one of the *)
(* function's parameters or locals, a name of module hmm, or a builtin.    *)
(* Method names live in the class namespace and are not module names.      *)

GmmExports == {"almost_equal", "logsum", "ZEROLOGPROB"}
ModuleGlobals ==
    {"abc", "itertools", "time", "np", "plt", "sp", "scipy", "GenerativeModel",
     "_distribute_covar_matrix_to_match_cvtype", "_validate_covars",
     "HMM", "_BaseHMM", "_GaussianHMM", "_GMMHMM"} \cup GmmExports
Builtins == {"len", "xrange", "abs", "max", "reversed", "dict", "super", "ValueError"}
Unbound(name, locals) == name \notin (locals \cup ModuleGlobals \cup Builtins)

---------------------------------------------------------------------------
(* Covariance utilities of the sibling module gmm. *)

CvTypes == {"spherical", "tied", "diag", "full"}

RECURSIVE Det(_)
Det(m) ==
    IF Len(m) = 1 THEN m[1][1]
    ELSE LET n == Len(m)
             Minor(j) == [i \in 1..(n - 1) |->
                            [c \in 1..(n - 1) |-> m[i + 1][IF c < j THEN c ELSE c + 1]]]
             Term(j) == RMul(IF j % 2 = 1 THEN m[1][j] ELSE RNeg(m[1][j]),
                             Det(Minor(j)))
         IN  RSumSeq([j \in 1..n |-> Term(j)])

(* A d x d matrix (rows of rationals) is symmetric positive-definite. *)
IsSPD(m) ==
    LET d == Len(m)
        Lead(k) == [i \in 1..k |-> [j \in 1..k |-> m[i][j]]]
    IN  /\ \A i, j \in 1..d : m[i][j] = m[j][i]
        /\ \A k \in 1..d : RLess(RZero, Det(Lead(k)))

(* The d x d block number b (from 1) of a flat sequence of floats. *)
Block(data, b, d) ==
    [i \in 1..d |-> [j \in 1..d |-> data[(b - 1) * d * d + (i - 1) * d + j].v]]

_validate_covars(covars, cvtype, nstates, ndim) ==
    LET positive == \A i \in 1..Len(covars.data) : RLess(RZero, covars.data[i].v)
        ok == CASE cvtype = "spherical" ->
                     covars.shape = <<nstates>> /\ positive
                [] cvtype = "diag" ->
                     covars.shape = <<nstates, ndim>> /\ positive
                [] cvtype = "tied" ->
                     covars.shape = <<ndim, ndim>> /\ IsSPD(Block(covars.data, 1, ndim))
                [] cvtype = "full" ->
                     /\ covars.shape = <<nstates, ndim, ndim>>
                     /\ \A b \in 1..nstates : IsSPD(Block(covars.data, b, ndim))
                [] OTHER -> FALSE
    IN  IF ok THEN "None" ELSE "ValueError"

(* tiedcv is d x d; the result has the shape cvtype asks for. *)
_distribute_covar_matrix_to_match_cvtype(tiedcv, cvtype, nstates) ==
    LET d == tiedcv.shape[1]
        diag == [i \in 1..d |-> At2(tiedcv, i, i)]
        mean == Num(RDivInt(RSumSeq(RatsOf(diag)), d))
    IN  CASE cvtype = "spherical" -> np_tile(mean, <<nstates>>)
          [] cvtype = "tied" -> tiedcv
          [] cvtype = "diag" ->
               Arr(<<nstates, d>>, [i \in 1..(nstates * d) |-> diag[((i - 1) % d) + 1]])
          [] cvtype = "full" ->
               Arr(<<nstates, d, d>>,
                   [i \in 1..(nstates * d * d) |-> tiedcv.data[((i - 1) % (d * d)) + 1]])

np_eye(d) ==
    Arr(<<d, d>>, [i \in 1..(d * d) |->
                     IF (i - 1) \div d = (i - 1) % d THEN F(1, 1) ELSE F(0, 1)])

---------------------------------------------------------------------------
(* The parameter properties. *)

startprob_getter(self) == Return(self, [tag |-> "array", val |-> np_exp(self.log_startprob)])

(* startprob_setter with the assignment made before the sum is checked. *)
startprob_setter_store_first(self, startprob) ==
    IF len(startprob) # self.nstates
    THEN Raise(self, "ValueError", 245)
    ELSE IF ~almost_equal(np_sum(startprob), F(1, 1))
    THEN Raise([self EXCEPT !.log_startprob = np_log(startprob)], "ValueError", 247)
    ELSE Return([self EXCEPT !.log_startprob = np_log(startprob)], PyNone)

startprob_setter(self, startprob) ==
    IF len(startprob) # self.nstates
    THEN Raise(self, "ValueError", 245)
    ELSE IF ~almost_equal(np_sum(startprob), F(1, 1))
    THEN Raise(self, "ValueError", 247)
    ELSE Return([self EXCEPT !.log_startprob = np_log(startprob)], PyNone)

transmat_getter(self) == Return(self, [tag |-> "array", val |-> np_exp(self.log_transmat)])

transmat_setter(self, transmat) ==
    IF transmat.shape # <<self.nstates, self.nstates>>
    THEN Raise(self, "ValueError", 259)
    ELSE IF ~(\A x \in {np_sum_axis1(transmat)[i] : i \in 1..self.nstates} :
                almost_equal(x, F(1, 1)))
    THEN Raise(self, "ValueError", 261)
    ELSE Return([self EXCEPT !.log_transmat = np_log(transmat)], PyNone)

means_setter(self, means) ==
    IF means.shape # <<self.nstates, self.ndim>>
    THEN Raise(self, "ValueError", 496)
    ELSE Return([self EXCEPT !.means = means], PyNone)

covars_setter(self, covars) ==
    IF _validate_covars(covars, self.cvtype, self.nstates, self.ndim) # "None"
    THEN Raise(self, "ValueError", 507)
    ELSE Return([self EXCEPT !.covars = covars], PyNone)

---------------------------------------------------------------------------
(* Construction. *)

BaseHMM__init__(self, nstates) ==
    LET s1 == [self EXCEPT !.nstates = nstates]
        r1 == startprob_setter(s1, np_tile(F(1, nstates), <<nstates>>))
    IN  IF r1.exc # NoExc THEN r1
        ELSE transmat_setter(r1.self, np_tile(F(1, nstates), <<nstates, nstates>>))

GaussianHMM__init__(nstates, ndim, cvtype) ==
    LET s0 == [nstates |-> 0, ndim |-> 0, cvtype |-> "",
               log_startprob |-> Unset, log_transmat |-> Unset,
               means |-> Unset, covars |-> Unset]
        r1 == BaseHMM__init__(s0, nstates)
        s2 == [r1.self EXCEPT !.ndim = ndim, !.cvtype = cvtype]
        r2 == means_setter(s2, np_zeros(<<nstates, ndim>>))
    IN  IF r1.exc # NoExc THEN r1
        ELSE IF r2.exc # NoExc THEN r2
        ELSE covars_setter(r2.self,
                 _distribute_covar_matrix_to_match_cvtype(np_eye(ndim), cvtype, nstates))

---------------------------------------------------------------------------
(* Initialization from data.  The clustering routine and np.cov are        *)
(* external: their results (centroids, cv) are inputs of the call.         *)

ParamLetters == {"s", "t", "m", "c"}

BaseHMM_init(self, params) ==
    LET n == self.nstates
        r1 == IF "s" \in params
              THEN startprob_setter(self, np_tile(F(1, n), <<n>>))
              ELSE Return(self, PyNone)
    IN  IF r1.exc # NoExc THEN r1
        ELSE IF "t" \in params
        THEN startprob_setter(r1.self, np_tile(F(1, n), <<n, n>>))
        ELSE Return(r1.self, PyNone)

GaussianHMM_init(self, params, centroids, cv) ==
    LET r1 == BaseHMM_init(self, params)
        s2 == IF "m" \in params THEN [r1.self EXCEPT !.means = centroids] ELSE r1.self
        s3 == IF "c" \in params
              THEN [s2 EXCEPT !.covars =
                      _distribute_covar_matrix_to_match_cvtype(cv, s2.cvtype, s2.nstates)]
              ELSE s2
    IN  IF r1.exc # NoExc THEN r1 ELSE Return(s3, PyNone)

---------------------------------------------------------------------------
(* The subclass hooks of _GaussianHMM. *)

(* def _compute_obs_log_likelihood(self, obs): pass *)
_compute_obs_log_likelihood(self, obs) == Return(self, PyNone)

(* def _mstep(): pass -- it takes no argument, and train calls it as       *)
(* self._mstep(posteriors): the call itself raises.                        *)
_mstep(self, posteriors) == Raise(self, "TypeError", 229)

---------------------------------------------------------------------------
(* Pruning (314-342).  Lattice frames hold logarithms: log r for a         *)
(* rational r > 0, 0 for log 1 and -inf for log 0.                         *)

(* gmm.logsum of a frame: the logarithm of the sum of the exponentials. *)
logsum(a) == np_log1(Num(RSumSeq(RatsOf(np_exp(a).data))))

(* x + y of two logarithms (319). *)
log_plus(x, y) ==
    IF x.k = "nan" \/ y.k = "nan" THEN NaN
    ELSE IF x.k = "ninf" \/ y.k = "ninf" THEN NegInf
    ELSE np_log1(Num(RMul(np_exp1(x).v, np_exp1(y).v)))

(* x > ZEROLOGPROB (326): the floor is a finite number below every finite  *)
(* logarithm a frame can hold, so only -inf is at or below it.             *)
above_ZEROLOGPROB(x) == x.k \notin {"ninf", "nan"}

(* x >= y of two logarithms (342); a comparison with nan is false. *)
float_geq(x, y) ==
    /\ x.k # "nan" /\ y.k # "nan"
    /\ RLeq(np_exp1(y).v, np_exp1(x).v)

(* if maxrank: (322) -- None and 0 are false. *)
truthy(v) == v.tag = "int" /\ v.val[1] # 0

(* where(lattice_frame >= threshlogprob) (342): the indices, from 0 and    *)
(* increasing, of the entries that pass.                                   *)
where_geq(lattice_frame, threshlogprob) ==
    SelectSeq([i \in 1..len(lattice_frame) |-> i - 1],
              LAMBDA i : float_geq(lattice_frame.data[i + 1], threshlogprob))

(* 326 takes the minimum of the entries above the floor, which raises on   *)
(* an empty selection; 327 hands np.histogram the name tmp, which nothing  *)
(* binds.  342 unpacks the one index array where gives for a vector into  *)
(* the local state_idx == where_geq(lattice_frame, threshlogprob), and the *)
(* body ends there: the function has no return statement.  where is read   *)
(* as a module name; the module gets it from gmm's exports or not at all   *)
(* (where_bound).                                                          *)
_prune_states(self, lattice_frame, maxrank, beamlogprob, where_bound) ==
    LET locals == {"self", "lattice_frame", "maxrank", "beamlogprob", "threshlogprob",
                   "nbins", "lattice_min", "hst", "cdf", "rankthresh", "state_idx"}
        threshlogprob == log_plus(logsum(lattice_frame), beamlogprob)
    IN  IF truthy(maxrank)
        THEN IF \A i \in 1..len(lattice_frame) : ~above_ZEROLOGPROB(lattice_frame.data[i])
             THEN Raise(self, "ValueError", 326)
             ELSE IF Unbound("tmp", locals)
             THEN Raise(self, "NameError", 327)
             ELSE Raise(self, "TypeError", 327)
        ELSE IF ~where_bound /\ Unbound("where", locals)
        THEN Raise(self, "NameError", 342)
        ELSE IF Len(lattice_frame.shape) # 1 THEN Raise(self, "ValueError", 342)
        ELSE Return(self, PyNone)

---------------------------------------------------------------------------
(* The lattice passes. *)

(* 280: fwdlattice = np.zeros(self._nstates, len(obsll)).  obsll is read   *)
(* before anything else is done; were it bound, np.zeros would be given an *)
(* integer where it takes a dtype.                                         *)
_do_forward_pass(self, framelogprob, maxrank, beamlogprob, fun) ==
    IF Unbound("obsll", {"self", "framelogprob", "maxrank", "beamlogprob", "fun",
                         "fwdlattice", "n", "idx", "pr"})
    THEN Raise(self, "NameError", 280)
    ELSE Raise(self, "TypeError", 280)

(* 295: bwdlattice = np.zeros(self._nstates, len(obsll)), as above. *)
_do_backward_pass(self, framelogprob, fwdlattice, maxrank, beamlogprob) ==
    IF Unbound("obsll", {"self", "framelogprob", "fwdlattice", "maxrank",
                         "beamlogprob", "bwdlattice", "n", "idx", "pr"})
    THEN Raise(self, "NameError", 295)
    ELSE Raise(self, "TypeError", 295)

(* 266: the callee _do_forward_pass is looked up as a plain name, not as   *)
(* an attribute of self, and it is passed the keyword dictionary kwards,   *)
(* which is no name of the function (its parameter is kwargs).             *)
_do_forward_pass_viterbi(self, framelogprob, maxrank, beamlogprob) ==
    LET locals == {"self", "args", "kwargs", "logprob", "lattice",
                   "reverse_state_sequence", "s", "frame"}
    IN  IF Unbound("_do_forward_pass", locals) \/ Unbound("kwards", locals)
        THEN Raise(self, "NameError", 266)
        ELSE _do_forward_pass(self, framelogprob, maxrank, beamlogprob, "max")

---------------------------------------------------------------------------
(* Evaluation and decoding. *)

(* 79-80: the posteriors are only computed once both passes returned; the  *)
(* total log-likelihood the forward pass returns is a scalar, and          *)
(* logprob[:, np.newaxis] indexes it.                                      *)
eval(self, obs, maxrank, beamlogprob) ==
    LET r1 == _compute_obs_log_likelihood(self, obs)
        r2 == _do_forward_pass(r1.self, r1.ret, maxrank, beamlogprob, "logsum")
        r3 == _do_backward_pass(r2.self, r1.ret, r2.ret, maxrank, beamlogprob)
    IN  IF r1.exc # NoExc THEN r1
        ELSE IF r2.exc # NoExc THEN r2
        ELSE IF r3.exc # NoExc THEN r3
        ELSE Raise(r3.self, "IndexError", 80)

lpdf(self, obs, maxrank, beamlogprob) ==
    LET r1 == _compute_obs_log_likelihood(self, obs)
        r2 == _do_forward_pass(r1.self, r1.ret, maxrank, beamlogprob, "logsum")
    IN  IF r1.exc # NoExc THEN r1
        ELSE IF r2.exc # NoExc THEN r2
        ELSE Return(r2.self, [tag |-> "float", val |-> <<r2.ret.val[1]>>])

(* 117: maxrank and beamlogprob are no parameters of decode. *)
decode(self, obs) ==
    LET r1 == _compute_obs_log_likelihood(self, obs)
        locals == {"self", "obs", "obsll", "logprob", "state_sequence"}
    IN  IF r1.exc # NoExc THEN r1
        ELSE IF Unbound("maxrank", locals) \/ Unbound("beamlogprob", locals)
        THEN Raise(r1.self, "NameError", 117)
        ELSE LET r2 == _do_forward_pass_viterbi(r1.self, r1.ret, PyNone, NegInf)
             IN  IF r2.exc # NoExc THEN r2
                 ELSE Return(r2.self, [tag |-> "list", val |-> r2.ret.val[2]])

---------------------------------------------------------------------------
(* Baum-Welch training. *)

(* abs(x - y) < thresh for two log-likelihoods x = ln a, y = ln b and a    *)
(* plain threshold t: max(a/b, b/a) < e^t, with e^t taken from below as    *)
(* 1 + t + t^2/2.                                                          *)
LinOf(x) == IF x.k = "log" THEN x.v ELSE ROne
RInv(a) == Rat(a.den, a.num)
abs_diff_below(x, y, thresh) ==
    LET q == RMul(LinOf(x), RInv(LinOf(y)))
        r == IF RLess(q, ROne) THEN RInv(q) ELSE q
        t == thresh.v
    IN  RLeq(r, RAdd(ROne, RAdd(t, RDivInt(RMul(t, t), 2))))

(* One pass of the loop body at index i (209-230); logprob is the list so  *)
(* far.  Neither params nor min_covar is read anywhere in train.           *)
RECURSIVE train_loop(_, _, _, _, _, _)
train_loop(self, obs, i, iter, thresh, logprob) ==
    IF i >= iter THEN Return(self, [tag |-> "list", val |-> logprob])
    ELSE LET r == eval(self, obs, PyNone, NegInf)
             lp == Append(logprob, r.ret.val[1])
         IN  IF r.exc # NoExc THEN r
             ELSE IF i > 0 /\ abs_diff_below(lp[Len(lp)], lp[Len(lp) - 1], thresh)
             THEN Return(r.self, [tag |-> "list", val |-> lp])
             ELSE LET m == _mstep(r.self, r.ret.val[2])
                  IN  IF m.exc # NoExc THEN m
                      ELSE train_loop(m.self, obs, i + 1, iter, thresh, lp)

(* A train whose M-step resets the start distribution whatever the mask. *)
train_reestimating_startprob(self, obs, iter, min_covar, thresh, params) ==
    LET r == train_loop(self, obs, 0, iter, thresh, <<>>)
    IN  [r EXCEPT !.self.log_startprob = np_log(np_tile(F(1, self.nstates), <<self.nstates>>))]

train(self, obs, iter, min_covar, thresh, params) ==
    train_loop(self, obs, 0, iter, thresh, <<>>)

---------------------------------------------------------------------------
(* The values the calls are made with. *)

(* [7/10, 3/10, 0, ...] rotated to start at position i. *)
Sticky(n, i) ==
    [j \in 1..n |-> IF j = i THEN F(7, 10)
                    ELSE IF j = (i % n) + 1 THEN F(3, 10) ELSE F(0, 1)]
OneHot(n, i) == [j \in 1..n |-> IF j = i THEN F(1, 1) ELSE F(0, 1)]
Signed(n, i) ==
    [j \in 1..n |-> IF j = i THEN F(3, 2)
                    ELSE IF j = (i % n) + 1 THEN F(-1, 2) ELSE F(0, 1)]
StickyRows(n) ==
    Arr(<<n, n>>, [k \in 1..(n * n) |-> Sticky(n, ((k - 1) \div n) + 1)[((k - 1) % n) + 1]])

StartprobInputs(n) ==
    {np_tile(F(1, n), <<n>>), Arr(<<n>>, OneHot(n, 1)),
     Scale(RInt(2), np_tile(F(1, n), <<n>>)), EmptyList, np_zeros(<<n + 1, 2>>),
     np_tile(F(1, n * n), <<n, n>>)}
    \cup (IF n >= 2 THEN {Arr(<<n>>, Signed(n, 1))} ELSE {})

TransmatInputs(n) ==
    {np_tile(F(1, n), <<n, n>>),
     Scale(RInt(2), np_tile(F(1, n), <<n, n>>)), EmptyList, np_zeros(<<n + 1, n>>)}
    \cup (IF n >= 2 THEN {StickyRows(n)} ELSE {})

Ramp(n, d) == Arr(<<n, d>>, [k \in 1..(n * d) |-> F(20 * k, 1)])
MeansInputs(n, d) == {Ramp(n, d), EmptyList, np_zeros(<<n + 1, d>>)}
Centroids(n, d) == {Ramp(n, d)}

CovResults(d) == {Scale(RInt(2), np_eye(d))}
CovarsInputs(n, d, cvtype) ==
    {_distribute_covar_matrix_to_match_cvtype(Scale(RInt(2), np_eye(d)), cvtype, n),
     _distribute_covar_matrix_to_match_cvtype(np_zeros(<<d, d>>), cvtype, n),
     EmptyList, np_zeros(<<n + 1, d>>)}

(* The masks init and train are called with: every letter is in one mask  *)
(* and missing from another.                                               *)
Masks == {ParamLetters, {}, {"s", "t"}, {"m", "c"}}
TrainMasks == Masks
Iters == 0..MaxIter
Thresholds == {F(1, 100)}
MinCovars == {F(1, 1)}

(* The emission probabilities of the reference scenario (two states, five  *)
(* frames) and, for any number of states, of a two-frame sequence.         *)
RefEmissions ==
    Arr(<<5, 2>>, <<F(9, 10), F(2, 10), F(9, 10), F(2, 10), F(1, 10), F(8, 10),
                    F(9, 10), F(2, 10), F(9, 10), F(2, 10)>>)
TwoFrames(n) ==
    Arr(<<2, n>>, [k \in 1..(2 * n) |-> IF k = 1 \/ k = 2 * n THEN F(9, 10) ELSE F(1, 5)])
Emissions(n) == IF n = 2 THEN {RefEmissions} ELSE {TwoFrames(n)}
FrameLogProbs(n) == {np_log(e) : e \in Emissions(n)}
Observations(d) == {np_zeros(<<2, d>>)}

PyInt(i) == [tag |-> "int", val |-> <<i>>]

(* Frames given to _prune_states: distinct values, all equal, and one with *)
(* entries at -inf; the calls are the three of the tests (no pruning, rank *)
(* 1, a beam), the beam being log(1/2).                                    *)
PruneFrames(n) ==
    {np_log(Arr(<<n>>, [s \in 1..n |-> F(s, 10)])),
     np_log(np_tile(F(1, n), <<n>>)),
     np_log(Arr(<<n>>, OneHot(n, n)))}
PruneCalls == {<<PyNone, NegInf>>, <<PyInt(1), NegInf>>, <<PyNone, np_log1(F(1, 2))>>}
(* (maxrank, beamlogprob): the defaults, and a rank limit with a beam. *)
PruneArgs == {<<PyNone, NegInf>>, <<PyInt(1), F(-5, 1)>>}

---------------------------------------------------------------------------
(* The state: the object, and the last call made on it with its outcome.   *)

VARIABLES hmm, op, exc, ret
vars == <<hmm, op, exc, ret>>

Init ==
    /\ \E n \in 1..MaxStates, d \in 1..MaxDim, cvtype \in CvTypes :
          hmm = GaussianHMM__init__(n, d, cvtype).self
    /\ op = [name |-> "__init__"]
    /\ exc = NoExc
    /\ ret = PyNone

Do(call, res) ==
    /\ hmm' = res.self
    /\ op' = call
    /\ exc' = res.exc
    /\ ret' = res.ret

SetStartprob ==
    \E v \in StartprobInputs(hmm.nstates) :
        Do([name |-> "startprob.setter", arg |-> v], startprob_setter(hmm, v))

SetTransmat ==
    \E v \in TransmatInputs(hmm.nstates) :
        Do([name |-> "transmat.setter", arg |-> v], transmat_setter(hmm, v))

SetMeans ==
    \E v \in MeansInputs(hmm.nstates, hmm.ndim) :
        Do([name |-> "means.setter", arg |-> v], means_setter(hmm, v))

SetCovars ==
    \E v \in CovarsInputs(hmm.nstates, hmm.ndim, hmm.cvtype) :
        Do([name |-> "covars.setter", arg |-> v], covars_setter(hmm, v))

CallInit ==
    \E params \in Masks, centroids \in Centroids(hmm.nstates, hmm.ndim),
       cv \in CovResults(hmm.ndim) :
        Do([name |-> "init"],
           GaussianHMM_init(hmm, params, centroids, cv))

CallTrain ==
    \E obs \in Observations(hmm.ndim), iter \in Iters, min_covar \in MinCovars,
       thresh \in Thresholds, params \in TrainMasks :
        Do([name |-> "train", iter |-> iter, min_covar |-> min_covar,
            thresh |-> thresh, params |-> params],
           train(hmm, obs, iter, min_covar, thresh, params))

CallEval ==
    \E obs \in Observations(hmm.ndim), a \in PruneArgs :
        Do([name |-> "eval", obs |-> obs, maxrank |-> a[1], beamlogprob |-> a[2],
            framelogprob |-> _compute_obs_log_likelihood(hmm, obs).ret],
           eval(hmm, obs, a[1], a[2]))

CallLpdf ==
    \E obs \in Observations(hmm.ndim), a \in PruneArgs :
        Do([name |-> "lpdf", maxrank |-> a[1], beamlogprob |-> a[2]],
           lpdf(hmm, obs, a[1], a[2]))

CallDecode ==
    \E obs \in Observations(hmm.ndim) :
        Do([name |-> "decode", obs |-> obs,
            framelogprob |-> _compute_obs_log_likelihood(hmm, obs).ret],
           decode(hmm, obs))

CallForwardPass ==
    \E f \in FrameLogProbs(hmm.nstates), a \in PruneArgs :
        Do([name |-> "_do_forward_pass", framelogprob |-> f,
            maxrank |-> a[1], beamlogprob |-> a[2]],
           _do_forward_pass(hmm, f, a[1], a[2], "logsum"))

CallBackwardPass ==
    \E f \in FrameLogProbs(hmm.nstates), a \in PruneArgs :
        Do([name |-> "_do_backward_pass", framelogprob |-> f,
            fwdlattice |-> np_zeros(f.shape),
            maxrank |-> a[1], beamlogprob |-> a[2]],
           _do_backward_pass(hmm, f, np_zeros(f.shape), a[1], a[2]))

CallViterbi ==
    \E f \in FrameLogProbs(hmm.nstates) :
        Do([name |-> "_do_forward_pass_viterbi", framelogprob |-> f],
           _do_forward_pass_viterbi(hmm, f, PyNone, NegInf))

CallPruneStates ==
    \E fr \in PruneFrames(hmm.nstates), a \in PruneCalls :
      \E where_bound \in (IF truthy(a[1]) THEN {TRUE} ELSE BOOLEAN) :
        Do([name |-> "_prune_states", lattice_frame |-> fr,
            maxrank |-> a[1], beamlogprob |-> a[2]],
           _prune_states(hmm, fr, a[1], a[2], where_bound))

Next ==
    \/ SetStartprob
    \/ SetTransmat
    \/ SetMeans
    \/ SetCovars
    \/ CallInit
    \/ CallTrain
    \/ CallEval
    \/ CallLpdf
    \/ CallDecode
    \/ CallForwardPass
    \/ CallBackwardPass
    \/ CallViterbi
    \/ CallPruneStates

Spec == Init /\ [][Next]_vars

---------------------------------------------------------------------------
(* What the claims are stated with. *)

SetterNames == {"startprob.setter", "transmat.setter", "means.setter", "covars.setter"}

(* The value v fails the check of the field the setter called name writes. *)
FailsCheck(self, name, v) ==
    CASE name = "startprob.setter" ->
           len(v) # self.nstates \/ ~almost_equal(np_sum(v), F(1, 1))
      [] name = "transmat.setter" ->
           \/ v.shape # <<self.nstates, self.nstates>>
           \/ \E i \in 1..self.nstates : ~almost_equal(np_sum_axis1(v)[i], F(1, 1))
      [] name = "means.setter" -> v.shape # <<self.nstates, self.ndim>>
      [] name = "covars.setter" ->
           _validate_covars(v, self.cvtype, self.nstates, self.ndim) # "None"

(* A sequence of floats is a probability distribution. *)
IsDistribution(s) ==
    /\ \A i \in 1..Len(s) : s[i].k = "num" /\ RLeq(RZero, s[i].v)
    /\ almost_equal(Num(RSumSeq(RatsOf(s))), F(1, 1))

startprob(self) == startprob_getter(self).ret.val
transmat(self) == transmat_getter(self).ret.val
UniformLogStartprob(n) == np_log(np_tile(F(1, n), <<n>>))
UniformLogTransmat(n) == np_log(np_tile(F(1, n), <<n, n>>))

---------------------------------------------------------------------------
(* C1: a setter called with a value that fails its field's shape,          *)
(* sum-to-one or covariance check raises ValueError, and the call leaves   *)
(* every attribute of the model, the one being set included, as it was.    *)
C1_RejectedSetLeavesModel ==
    [][(op'.name \in SetterNames /\ FailsCheck(hmm, op'.name, op'.arg))
          => (exc'.type = "ValueError" /\ hmm' = hmm)]_vars

(* C1 witness: a transition matrix whose rows do not sum to one was        *)
(* refused while the model held a matrix set earlier, not the default.     *)
C1_Witness ==
    /\ op.name = "transmat.setter"
    /\ exc = [type |-> "ValueError", line |-> 261]
    /\ hmm.log_transmat # UniformLogTransmat(hmm.nstates)

(* C2: whatever calls were made, the start distribution has nstates        *)
(* entries that sum to one and the transition matrix is nstates x nstates  *)
(* with every row summing to one.                                          *)
C2_ParametersStayNormalized ==
    /\ Prod(startprob(hmm).shape) = hmm.nstates
    /\ IsDistribution(startprob(hmm).data)
    /\ transmat(hmm).shape = <<hmm.nstates, hmm.nstates>>
    /\ \A i \in 1..hmm.nstates : IsDistribution(Row(transmat(hmm), i))

---------------------------------------------------------------------------
(* Linear-space quantities of a model and a frame log-likelihood matrix f. *)

StartProbOf(self, s) == np_exp1(self.log_startprob.data[s]).v
TransProbOf(self, s, t) == np_exp1(At2(self.log_transmat, s, t)).v
EmissionOf(f, k, s) == np_exp1(At2(f, k, s)).v
RDiv(a, b) == RMul(a, RInv(b))

IsUniformModel(self) ==
    /\ self.log_startprob = UniformLogStartprob(self.nstates)
    /\ self.log_transmat = UniformLogTransmat(self.nstates)

(* The 2-state scenario of the tests: start [0.5, 0.5], transitions       *)
(* [[0.7, 0.3], [0.3, 0.7]] and the five frames of RefEmissions.           *)
IsReferenceScenario(self, f) ==
    /\ self.nstates = 2
    /\ self.log_startprob = UniformLogStartprob(2)
    /\ self.log_transmat = np_log(StickyRows(2))
    /\ f = np_log(RefEmissions)

(* x rounded to four decimals is m / 10^4. *)
Rounds4(x, m) == RLeq(RAbs(RSub(x, Rat(m, 10000))), Rat(1, 20000))

(* The float lp is the logarithm of a number strictly between lo and hi. *)
LogBetween(lp, lo, hi) ==
    /\ np_exp1(lp).k = "num"
    /\ RLess(lo, np_exp1(lp).v)
    /\ RLess(np_exp1(lp).v, hi)

(* The alpha recursion: frame k (1-based) of the forward lattice. *)
RECURSIVE Alpha(_, _, _)
Alpha(self, f, k) ==
    IF k = 1
    THEN [t \in 1..self.nstates |-> RMul(StartProbOf(self, t), EmissionOf(f, 1, t))]
    ELSE LET prev == Alpha(self, f, k - 1)
         IN  [t \in 1..self.nstates |->
                RMul(RSumSeq([s \in 1..self.nstates |->
                                RMul(prev[s], TransProbOf(self, s, t))]),
                     EmissionOf(f, k, t))]

(* The beta recursion: frame k (1-based) of the backward lattice. *)
RECURSIVE Beta(_, _, _)
Beta(self, f, k) ==
    IF k = len(f)
    THEN [s \in 1..self.nstates |-> ROne]
    ELSE LET next == Beta(self, f, k + 1)
         IN  [s \in 1..self.nstates |->
                RSumSeq([t \in 1..self.nstates |->
                           RMul(TransProbOf(self, s, t),
                                RMul(next[t], EmissionOf(f, k + 1, t)))])]

(* State sequences (0-based state indices) and their joint probability    *)
(* with the first k frames.                                                *)
Paths(n, L) == [1..L -> 0..(n - 1)]
RECURSIVE Joint(_, _, _, _)
Joint(self, f, q, k) ==
    IF k = 1
    THEN RMul(StartProbOf(self, q[1] + 1), EmissionOf(f, 1, q[1] + 1))
    ELSE RMul(Joint(self, f, q, k - 1),
              RMul(TransProbOf(self, q[k - 1] + 1, q[k] + 1),
                   EmissionOf(f, k, q[k] + 1)))
IsBestPath(self, f, q) ==
    /\ q \in Paths(self.nstates, len(f))
    /\ \A p \in Paths(self.nstates, len(f)) :
          RLeq(Joint(self, f, p, len(f)), Joint(self, f, q, len(f)))

(* A model whose start distribution and transition rows are distributions. *)
IsValidModel(self) ==
    /\ self.log_startprob.shape = <<self.nstates>>
    /\ IsDistribution(startprob(self).data)
    /\ self.log_transmat.shape = <<self.nstates, self.nstates>>
    /\ \A i \in 1..self.nstates : IsDistribution(Row(transmat(self), i))

(* The lattices and the Viterbi total of the tests, in units of 10^-4 and  *)
(* as the interval of numbers whose logarithm rounds to the quoted value.  *)
RefForward == <<4500, 1000, 3105, 410, 230, 975, 408, 150, 298, 46>>
RefBackward == <<661, 455, 906, 1503, 4593, 2437, 6900, 4100, 10000, 10000>>

(* Every backward value is at least a thousandth of its frame's total, so  *)
(* none falls below the fixed beam of line 302.                            *)
NoTargetPruned(self, f) ==
    \A k \in 1..len(f), t \in 1..self.nstates :
        RLeq(RSumSeq(Beta(self, f, k)), RMul(RInt(1000), Beta(self, f, k)[t]))

(* The state sequence in what decode returned, with or without a score. *)
StateSequenceOf(r) == IF r.tag = "tuple" THEN r.val[2] ELSE r.val

(* x - y < thresh for logarithms x and y. *)
ImprovementBelow(x, y, thresh) ==
    LET q == RDiv(LinOf(x), LinOf(y))
        t == thresh.v
    IN  RLess(q, RAdd(ROne, RAdd(t, RDivInt(RMul(t, t), 2))))

(* The parameter group a mask letter names. *)
GroupOf(self, x) ==
    CASE x = "s" -> self.log_startprob
      [] x = "t" -> self.log_transmat
      [] x = "m" -> self.means
      [] x = "c" -> self.covars

---------------------------------------------------------------------------
(* C3: every call of eval on a valid model, whatever rank limit and beam   *)
(* the caller passes, returns a posterior matrix with one row per frame    *)
(* whose rows each sum to one.                                             *)
C3_PosteriorRowsSumToOne ==
    (op.name = "eval" /\ IsValidModel(hmm)) =>
        /\ exc = NoExc
        /\ ret.tag = "tuple"
        /\ ret.val[2].shape = <<len(op.obs), hmm.nstates>>
        /\ \A k \in 1..len(op.obs) : IsDistribution(Row(ret.val[2], k))

(* C4: with no rank limit and beam -infinity the forward pass returns the  *)
(* lattice of the alpha recursion and, as total, the logarithm of the sum  *)
(* of its last frame; on the reference scenario the lattice rounds to      *)
(* RefForward and the total log-likelihood to -3.3725.                     *)
C4_ForwardIsAlphaRecursion ==
    (/\ op.name = "_do_forward_pass"
     /\ op.maxrank = PyNone /\ op.beamlogprob = NegInf
     /\ IsValidModel(hmm)) =>
        /\ exc = NoExc
        /\ ret.tag = "tuple"
        /\ LET f == op.framelogprob
               lat == ret.val[2]
           IN  /\ lat.shape = f.shape
               /\ \A k \in 1..len(f), s \in 1..hmm.nstates :
                     np_exp1(At2(lat, k, s)) = Num(Alpha(hmm, f, k)[s])
               /\ np_exp1(ret.val[1]) = Num(RSumSeq(Alpha(hmm, f, len(f))))
               /\ IsReferenceScenario(hmm, f) =>
                     /\ \A k \in 1..5, s \in 1..2 :
                           Rounds4(np_exp1(At2(lat, k, s)).v, RefForward[(k - 1) * 2 + s])
                     /\ LogBetween(ret.val[1], Rat(34302055, 1000000000),
                                   Rat(34305486, 1000000000))

(* C5: when no target state is pruned the backward pass returns the        *)
(* lattice of the beta recursion, last frame all ones, every frame filled; *)
(* on the reference scenario it rounds to RefBackward.                     *)
C5_BackwardIsBetaRecursion ==
    (/\ op.name = "_do_backward_pass"
     /\ op.maxrank = PyNone
     /\ IsValidModel(hmm)
     /\ NoTargetPruned(hmm, op.framelogprob)) =>
        /\ exc = NoExc
        /\ ret.tag = "array"
        /\ LET f == op.framelogprob
               lat == ret.val
           IN  /\ lat.shape = f.shape
               /\ \A k \in 1..len(f), s \in 1..hmm.nstates :
                     np_exp1(At2(lat, k, s)) = Num(Beta(hmm, f, k)[s])
               /\ IsReferenceScenario(hmm, f) =>
                     \A k \in 1..5, s \in 1..2 :
                         Rounds4(np_exp1(At2(lat, k, s)).v, RefBackward[(k - 1) * 2 + s])

(* C6: decoding returns a state sequence of largest joint probability      *)
(* among all sequences of the observation's length, and the score returned *)
(* with it is the logarithm of that sequence's own joint probability.      *)
C6_DecodeReturnsBestPath ==
    (op.name \in {"decode", "_do_forward_pass_viterbi"} /\ IsValidModel(hmm)) =>
        /\ exc = NoExc
        /\ ret.tag = "tuple"
        /\ IsBestPath(hmm, op.framelogprob, ret.val[2])
        /\ np_exp1(ret.val[1]) =
              Num(Joint(hmm, op.framelogprob, ret.val[2], len(op.framelogprob)))

(* C7: on the reference scenario the Viterbi pass returns the sequence     *)
(* [0, 0, 1, 0, 0] with a log-probability that rounds to -4.3500.          *)
C7_ReferenceViterbi ==
    (/\ op.name = "_do_forward_pass_viterbi"
     /\ IsReferenceScenario(hmm, op.framelogprob)) =>
        /\ exc = NoExc
        /\ ret.tag = "tuple"
        /\ ret.val[2] = <<0, 0, 1, 0, 0>>
        /\ LogBetween(ret.val[1], Rat(12906167, 1000000000),
                      Rat(12907458, 1000000000))

(* C8: for a model with uniform start distribution and transition matrix,  *)
(* eval's posterior of a frame is the frame's emission likelihoods divided *)
(* by their sum, and decode's state at a frame is one of largest emission  *)
(* likelihood.                                                             *)
C8_UniformModelIgnoresChain ==
    (op.name \in {"eval", "decode"} /\ IsUniformModel(hmm)) =>
        /\ exc = NoExc
        /\ LET f == op.framelogprob
               e(k) == [s \in 1..hmm.nstates |-> EmissionOf(f, k, s)]
           IN  \A k \in 1..len(op.obs), s \in 1..hmm.nstates :
                  IF op.name = "eval"
                  THEN almost_equal(At2(ret.val[2], k, s),
                                    Num(RDiv(e(k)[s], RSumSeq(e(k)))))
                  ELSE RLeq(e(k)[s], e(k)[StateSequenceOf(ret)[k] + 1])

(* C9: train never raises; it returns one log-likelihood per E-step, at    *)
(* most iter of them; it goes on while the improvement over the previous   *)
(* iteration is at least the threshold and stops before the budget is used *)
(* up only at the first iteration whose improvement is below it.           *)
C9_TrainStopsOnSmallImprovement ==
    op.name = "train" =>
        /\ exc = NoExc
        /\ ret.tag = "list"
        /\ LET lp == ret.val
               m == Len(ret.val)
           IN  /\ m <= op.iter
               /\ op.iter >= 1 => m >= 1
               /\ \A j \in 2..(m - 1) : ~ImprovementBelow(lp[j], lp[j - 1], op.thresh)
               /\ m < op.iter => (m >= 2 /\ ImprovementBelow(lp[m], lp[m - 1], op.thresh))

---------------------------------------------------------------------------
(* The variances of a model: every entry for spherical and diag, the       *)
(* diagonal of the one matrix for tied and of every state's for full.      *)
VarianceTerms(self) ==
    LET d == self.ndim
        c == self.covars
    IN  CASE self.cvtype \in {"spherical", "diag"} ->
               {c.data[i].v : i \in 1..Len(c.data)}
          [] self.cvtype = "tied" -> {Block(c.data, 1, d)[i][i] : i \in 1..d}
          [] self.cvtype = "full" ->
               {Block(c.data, b, d)[i][i] : b \in 1..self.nstates, i \in 1..d}

(* The linear value of entry s (from 1) of a frame, and the frame's total. *)
MassOf(frame, s) == np_exp1(frame.data[s]).v
TotalMass(frame) == RSumSeq([s \in 1..len(frame) |-> MassOf(frame, s)])

(* The indices (from 0) whose mass is at least exp(b) times the total. *)
BeamSurvivors(frame, b) ==
    {s - 1 : s \in {t \in 1..len(frame) :
                      RLeq(RMul(np_exp1(b).v, TotalMass(frame)), MassOf(frame, t))}}

(* The indices (from 0) of the entries at or below the numeric floor. *)
FloorStates(frame) == {s - 1 : s \in {t \in 1..len(frame) : frame.data[t].k = "ninf"}}

(* The set of indices in a returned index array. *)
IndexSet(r) == {r.val[i] : i \in 1..Len(r.val)}

(* C11: after a train call that re-estimates covariances (mask with 'c',   *)
(* at least one iteration, hence at least one M-step) every variance of    *)
(* every state is at least min_covar.                                      *)
C11_MStepFloorsCovariances ==
    (op.name = "train" /\ "c" \in op.params /\ op.iter >= 1) =>
        /\ exc = NoExc
        /\ \A v \in VarianceTerms(hmm) : RLeq(op.min_covar.v, v)

(* C12: pruning with no rank limit and beam -infinity returns the indices  *)
(* 0..nstates-1 in increasing order, for every frame, frames with entries  *)
(* at or below the floor included.                                         *)
C12_NoPruningKeepsEveryState ==
    (op.name = "_prune_states" /\ op.maxrank = PyNone /\ op.beamlogprob = NegInf) =>
        /\ exc = NoExc
        /\ ret.tag = "array"
        /\ ret.val = [i \in 1..len(op.lattice_frame) |-> i - 1]

(* C13: pruning with rank limit 1 and the beam disabled, on a frame with   *)
(* an entry above the floor, returns exactly one index, and the frame's    *)
(* maximum is attained there.                                              *)
C13_RankOneKeepsTheMaximum ==
    (/\ op.name = "_prune_states"
     /\ op.maxrank = PyInt(1) /\ op.beamlogprob = NegInf
     /\ FloorStates(op.lattice_frame) # 0..(len(op.lattice_frame) - 1)) =>
        /\ exc = NoExc
        /\ ret.tag = "array"
        /\ Len(ret.val) = 1
        /\ \A s \in 1..len(op.lattice_frame) :
              RLeq(MassOf(op.lattice_frame, s), MassOf(op.lattice_frame, ret.val[1] + 1))

(* C14: pruning with no rank limit and beam offset b <= 0 returns exactly  *)
(* the states whose mass is at least exp(b) times the frame's total mass.  *)
C14_BeamKeepsStatesAboveThreshold ==
    (op.name = "_prune_states" /\ op.maxrank = PyNone) =>
        /\ exc = NoExc
        /\ ret.tag = "array"
        /\ IndexSet(ret) = BeamSurvivors(op.lattice_frame, op.beamlogprob)

(* C15: whatever the rank limit and the beam, pruning returns a set of     *)
(* active states that holds no state whose entry is at or below the floor. *)
C15_FloorStatesNeverActive ==
    op.name = "_prune_states" =>
        /\ exc = NoExc
        /\ ret.tag = "array"
        /\ IndexSet(ret) \cap FloorStates(op.lattice_frame) = {}

---------------------------------------------------------------------------
(* What the getter of the field a setter writes returns. *)
GetterOf(self, name) ==
    IF name = "startprob.setter" THEN startprob(self) ELSE transmat(self)

(* C16: when the startprob or transmat setter accepts a value, the getter  *)
(* of that field returns the value, zeros as zeros; and a rejected setter  *)
(* call or a call of eval, lpdf or decode leaves what both getters return  *)
(* as it was.                                                              *)
C16_GetterReturnsAcceptedValue ==
    [][/\ (op'.name \in {"startprob.setter", "transmat.setter"} /\ exc' = NoExc)
             => GetterOf(hmm', op'.name) = op'.arg
       /\ (\/ op'.name \in SetterNames /\ exc' # NoExc
           \/ op'.name \in {"eval", "lpdf", "decode"})
             => (startprob(hmm') = startprob(hmm) /\ transmat(hmm') = transmat(hmm))]_vars

(* The max-lattice: frame k (from 1) of the Viterbi recursion, linear. *)
RMaxSeq(s) == CHOOSE x \in {s[i] : i \in 1..Len(s)} : \A i \in 1..Len(s) : RLeq(s[i], x)
RECURSIVE MaxLattice(_, _, _)
MaxLattice(self, f, k) ==
    IF k = 1
    THEN [t \in 1..self.nstates |-> RMul(StartProbOf(self, t), EmissionOf(f, 1, t))]
    ELSE LET prev == MaxLattice(self, f, k - 1)
         IN  [t \in 1..self.nstates |->
                RMul(RMaxSeq([s \in 1..self.nstates |->
                                RMul(prev[s], TransProbOf(self, s, t))]),
                     EmissionOf(f, k, t))]

(* C17: for L >= 1 frames the Viterbi pass returns L state indices in      *)
(* 0..nstates-1; the last is a maximum of the final max-lattice frame, and *)
(* each earlier one attains the maximum over s of maxlattice[n, s] times   *)
(* trans[s, next state].                                                   *)
C17_TracebackFollowsBackpointers ==
    (/\ op.name = "_do_forward_pass_viterbi"
     /\ IsValidModel(hmm)
     /\ len(op.framelogprob) >= 1) =>
        /\ exc = NoExc
        /\ ret.tag = "tuple"
        /\ LET f == op.framelogprob
               L == len(op.framelogprob)
               q == ret.val[2]
               S == 1..hmm.nstates
           IN  /\ DOMAIN q = 1..L
               /\ \A k \in 1..L : q[k] \in 0..(hmm.nstates - 1)
               /\ \A s \in S : RLeq(MaxLattice(hmm, f, L)[s], MaxLattice(hmm, f, L)[q[L] + 1])
               /\ \A k \in 1..(L - 1), s \in S :
                     RLeq(RMul(MaxLattice(hmm, f, k)[s], TransProbOf(hmm, s, q[k + 1] + 1)),
                          RMul(MaxLattice(hmm, f, k)[q[k] + 1],
                               TransProbOf(hmm, q[k] + 1, q[k + 1] + 1)))

(* C18: the backward pass returns a lattice, and it is the lattice the     *)
(* same frame matrix and forward lattice give with no rank limit and beam  *)
(* -infinity: what the caller passes for them has no effect.               *)
C18_BackwardIgnoresCallerPruning ==
    op.name = "_do_backward_pass" =>
        /\ exc = NoExc
        /\ ret.tag = "array"
        /\ ret = _do_backward_pass(hmm, op.framelogprob, op.fwdlattice, PyNone, NegInf).ret

=============================================================================
